---- MODULE Spec2Model ----
(***************************************************************************)
(* Model of the four FFmpeg repair scripts video_repair.py, 1.py, 3.py and *)
(* 4.py.  Strings are sequences of one-character strings; os.path is the   *)
(* POSIX flavour (sep "/", extsep ".").  The external ffmpeg binary is an  *)
(* opaque child process: it writes lines to its stderr and stdout pipes,   *)
(* may create the output file, and exits with a return code.               *)
(***************************************************************************)
EXTENDS Integers, Sequences, FiniteSets, TLC

VARIABLES
    script,       \* which of the four scripts is being run
    input_path,   \* argument of repair_video / repair_video_ffmpeg
    fs,           \* filesystem: set of <<path, size>>
    phase,        \* Idle, Validating, Running, or an outcome
    pc,           \* position of the parent inside the try block
    output_path,  \* derived output path (<<>> before it is derived)
    command,      \* argument list handed to Popen / run (<<>> before)
    spawns,       \* number of child processes created so far
    popen,        \* result of the Popen / run call
    reports,      \* result banners printed so far
    childState,   \* none, running, exited
    errTodo,      \* stderr lines the child still wants to write
    outTodo,      \* stdout lines the child still wants to write
    errPipe,      \* stderr pipe buffer (lines written, not yet read)
    outPipe,      \* stdout pipe buffer
    emitted,      \* number of stderr lines the child has written
    relayed,      \* lines written to the caller's sys.stderr
    relayedLive,  \* for each relayed line: was the child still running
    capErr,       \* 4.py: stderr captured by subprocess.run
    capOut,       \* 4.py: stdout captured by subprocess.run
    returncode,   \* exit status of the child (-1 while it has none)
    entered,      \* main: raw text typed or passed in sys.argv[1]
    source,       \* main: "prompt" or "argv"
    cleaned,      \* main: the path after clean-up
    mainPc,       \* main: position
    escStep,      \* operator escalation: number of scripts run so far
    escFs         \* operator escalation: set of <<path, writer script>>

vars == <<script, input_path, fs, phase, pc, output_path, command, spawns,
          popen, reports, childState, errTodo, outTodo, errPipe, outPipe,
          emitted, relayed, relayedLive, capErr, capOut, returncode,
          entered, source, cleaned, mainPc, escStep, escFs>>

runVars == <<fs, phase, pc, output_path, command, spawns, popen, reports,
             childState, errTodo, outTodo, errPipe, outPipe, emitted,
             relayed, relayedLive, capErr, capOut, returncode>>

mainVars == <<entered, source, cleaned, mainPc>>

escVars == <<escStep, escFs>>

----------------------------------------------------------------------------
(* Bounds *)

MaxPathLen == 3

MaxLines == 2

PipeCap == 1

MaxEscLen == 5

MaxEntered == 4

----------------------------------------------------------------------------
(* The scripts *)

Remux == "video_repair.py"

Reencode == "1.py"

Forced == "3.py"

Fixed == "4.py"

Scripts == {Remux, Reencode, Forced, Fixed}

\* scripts that use Popen with three pipes and iterate over process.stderr
Streaming == {Remux, Reencode, Forced}

EscalationOrder == <<Remux, Reencode, Forced>>

----------------------------------------------------------------------------
(* Strings *)

SeqsUpTo(S, n) == UNION {[1..k -> S] : k \in 0..n}

\* str.rfind(ch) + 1 : the 1-based index of the last ch, 0 when absent
RFind(p, ch) ==
    IF \E i \in 1..Len(p) : p[i] = ch
    THEN CHOOSE i \in 1..Len(p) :
             /\ p[i] = ch
             /\ \A j \in (i+1)..Len(p) : p[j] # ch
    ELSE 0

RECURSIVE RStrip(_, _)
RStrip(p, S) ==
    IF p # <<>> /\ p[Len(p)] \in S THEN RStrip(SubSeq(p, 1, Len(p) - 1), S)
    ELSE p

RECURSIVE LStrip(_, _)
LStrip(p, S) ==
    IF p # <<>> /\ p[1] \in S THEN LStrip(Tail(p), S)
    ELSE p

RECURSIVE Remove(_, _)
\* str.replace(ch, '')
Remove(p, ch) ==
    IF p = <<>> THEN <<>>
    ELSE IF p[1] = ch THEN Remove(Tail(p), ch)
    ELSE <<p[1]>> \o Remove(Tail(p), ch)

IsPrefix(s, t) == Len(s) <= Len(t) /\ SubSeq(t, 1, Len(s)) = s

----------------------------------------------------------------------------
(* os.path as the scripts use it *)

Dirname(p) ==
    LET i == RFind(p, "/")
        head == SubSeq(p, 1, i)
    IN IF head # <<>> /\ (\E k \in 1..Len(head) : head[k] # "/")
       THEN RStrip(head, {"/"})
       ELSE head

Basename(p) == SubSeq(p, RFind(p, "/") + 1, Len(p))

\* os.path.splitext: <<root, ext>>; leading dots of the name are not an ext
Splitext(p) ==
    LET sepIndex == RFind(p, "/")
        dotIndex == RFind(p, ".")
    IN IF /\ dotIndex > sepIndex
          /\ \E k \in (sepIndex + 1)..(dotIndex - 1) : p[k] # "."
       THEN <<SubSeq(p, 1, dotIndex - 1), SubSeq(p, dotIndex, Len(p))>>
       ELSE <<p, <<>>>>

Join(a, b) ==
    IF b # <<>> /\ b[1] = "/" THEN b
    ELSE IF a = <<>> \/ a[Len(a)] = "/" THEN a \o b
    ELSE a \o <<"/">> \o b

\* a plausible slip: the existence check always passes
PathExistsAlways(f, p) == TRUE

PathExists(f, p) == \E e \in f : e[1] = p

GetSize(f, p) == (CHOOSE e \in f : e[1] = p)[2]

WriteFile(f, p, n) == {e \in f : e[1] # p} \cup {<<p, n>>}

----------------------------------------------------------------------------
(* Output path derivation *)

Mp4 == <<".", "m", "p", "4">>

\* a plausible slip: no suffix is inserted before the extension
SuffixEmpty(s) == <<>>

Suffix(s) ==
    IF s = Fixed THEN <<".", "f", "i", "x", "e", "d">>
    ELSE <<"_", "n", "o", "n", "c", "o", "r", "r", "u", "p", "t">>

\* a plausible slip: 3.py keeps the input extension like the others
OutputExtensionKept(s, ext) == ext

OutputExtension(s, ext) == IF s = Forced THEN Mp4 ELSE ext

OutputFilename(s, stem, ext) == stem \o Suffix(s) \o OutputExtension(s, ext)

DeriveOutput(s, p) ==
    LET directory == Dirname(p)
        parts == Splitext(Basename(p))
    IN Join(directory, OutputFilename(s, parts[1], parts[2]))

\* only 4.py compares the derived path with the input
ChecksIdentical(s) == s = Fixed

----------------------------------------------------------------------------
(* Argument lists *)

Ffmpeg == <<"f", "f", "m", "p", "e", "g">>

FlagI == <<"-", "i">>

FlagY == <<"-", "y">>

FlagF == <<"-", "f">>

FlagErrDetect == <<"-", "e", "r", "r", "_", "d", "e", "t", "e", "c", "t">>

CopyArgs == << <<"-", "c">>, <<"c", "o", "p", "y">> >>

FaststartArgs ==
    << <<"-", "m", "o", "v", "f", "l", "a", "g", "s">>,
       <<"f", "a", "s", "t", "s", "t", "a", "r", "t">> >>

EncodeArgs ==
    << <<"-", "c", ":", "v">>, <<"l", "i", "b", "x", "2", "6", "4">>,
       <<"-", "p", "r", "e", "s", "e", "t">>, <<"m", "e", "d", "i", "u", "m">>,
       <<"-", "c", "r", "f">>, <<"2", "3">>,
       <<"-", "c", ":", "a">>, <<"a", "a", "c">>,
       <<"-", "b", ":", "a">>, <<"1", "2", "8", "k">> >>

ForcedInputArgs ==
    << FlagF, <<"h", "2", "6", "4">>,
       FlagErrDetect, <<"a", "g", "g", "r", "e", "s", "s", "i", "v", "e">> >>

BuildArguments(s, inp, out) ==
    CASE s = Remux ->
           <<Ffmpeg, FlagI, inp>> \o CopyArgs \o FaststartArgs \o <<FlagY, out>>
      [] s = Reencode ->
           <<Ffmpeg, FlagI, inp>> \o EncodeArgs \o FaststartArgs \o <<FlagY, out>>
      [] s = Forced ->
           <<Ffmpeg>> \o ForcedInputArgs \o <<FlagI, inp>> \o EncodeArgs
               \o FaststartArgs \o <<FlagY, out>>
      [] s = Fixed ->
           <<Ffmpeg, FlagI, inp>> \o CopyArgs \o <<out>>

----------------------------------------------------------------------------
(* Outcome classification and exception handling *)

Outcomes ==
    {"Succeeded", "Failed", "InputNotFound", "ToolNotFound",
     "IdenticalPaths", "Unexpected"}

\* a plausible slip: 4.py looks at the return code only
ClassifyExitCodeOnly(s, rc, f, out) ==
    IF rc = 0 THEN "Succeeded" ELSE "Failed"

\* a plausible slip: a failure sends the run back to try again
ClassifyRetry(s, rc, f, out) ==
    IF rc = 0 THEN "Succeeded" ELSE "Validating"

\* the if / else after the child has terminated
Classify(s, rc, f, out) ==
    IF s = Fixed
    THEN IF rc = 0 /\ PathExists(f, out) /\ GetSize(f, out) > 0
         THEN "Succeeded" ELSE "Failed"
    ELSE IF rc = 0 THEN "Succeeded" ELSE "Failed"

PopenResults == {"ok", "FileNotFoundError", "OSError"}

\* a plausible slip: only the generic except clause is present
ExceptionOutcomeGeneric(exc) == "Unexpected"

\* the except clauses of the try block
ExceptionOutcome(exc) ==
    IF exc = "FileNotFoundError" THEN "ToolNotFound" ELSE "Unexpected"

\* a plausible slip: the newest line is put in front
RelayPrepend(seen, line) == <<line>> \o seen

\* sys.stderr.write(line) appends to what the caller has seen
Relay(seen, line) == Append(seen, line)

----------------------------------------------------------------------------
(* One invocation of repair_video / repair_video_ffmpeg *)

PathAlphabet == {"/", ".", "a"}

NoChild ==
    /\ childState = "none" /\ errTodo = 0 /\ outTodo = 0
    /\ errPipe = <<>> /\ outPipe = <<>> /\ emitted = 0
    /\ relayed = <<>> /\ relayedLive = <<>> /\ capErr = <<>> /\ capOut = <<>>
    /\ returncode = -1

MainIdle ==
    /\ entered = <<>> /\ source = "prompt" /\ cleaned = <<>> /\ mainPc = "none"

EscIdle == escStep = 0 /\ escFs = {}

Init ==
    /\ script \in Scripts
    /\ input_path \in SeqsUpTo(PathAlphabet, MaxPathLen)
    /\ fs \in {{}} \cup (IF input_path = <<>> THEN {} ELSE {{<<input_path, 1>>}})
    /\ phase = "Idle"
    /\ pc = "none"
    /\ output_path = <<>>
    /\ command = <<>>
    /\ spawns = 0
    /\ popen = "none"
    /\ reports = <<>>
    /\ NoChild
    /\ MainIdle
    /\ EscIdle

\* main calls the repair function with the path
Start ==
    /\ phase = "Idle"
    /\ mainPc = "none"
    /\ phase' = "Validating"
    /\ UNCHANGED <<script, input_path, fs, pc, output_path, command, spawns,
                   popen, reports, childState, errTodo, outTodo, errPipe,
                   outPipe, emitted, relayed, relayedLive, capErr, capOut,
                   returncode>>
    /\ UNCHANGED mainVars /\ UNCHANGED escVars

\* the function body from the existence check to the Popen / run call
RepairVideo ==
    /\ phase = "Validating"
    /\ \E res \in PopenResults, e \in 0..MaxLines, o \in 0..MaxLines :
         LET out == DeriveOutput(script, input_path)
             cmd == BuildArguments(script, input_path, out)
         IN IF ~PathExists(fs, input_path)
            THEN /\ phase' = "InputNotFound"
                 /\ reports' = Append(reports, "InputNotFound")
                 /\ UNCHANGED <<output_path, command, spawns, popen, pc,
                                childState, errTodo, outTodo>>
            ELSE IF ChecksIdentical(script) /\ input_path = out
            THEN /\ phase' = "IdenticalPaths"
                 /\ reports' = Append(reports, "IdenticalPaths")
                 /\ output_path' = out
                 /\ UNCHANGED <<command, spawns, popen, pc,
                                childState, errTodo, outTodo>>
            ELSE IF res # "ok"
            THEN /\ phase' = ExceptionOutcome(res)
                 /\ reports' = Append(reports, ExceptionOutcome(res))
                 /\ output_path' = out
                 /\ command' = cmd
                 /\ popen' = res
                 /\ UNCHANGED <<spawns, pc, childState, errTodo, outTodo>>
            ELSE /\ phase' = "Running"
                 /\ output_path' = out
                 /\ command' = cmd
                 /\ popen' = res
                 /\ spawns' = spawns + 1
                 /\ pc' = IF script \in Streaming THEN "iter" ELSE "communicate"
                 /\ childState' = "running"
                 /\ errTodo' = e
                 /\ outTodo' = o
                 /\ UNCHANGED reports
    /\ UNCHANGED <<script, input_path, fs, errPipe, outPipe, emitted, relayed,
                   relayedLive, capErr, capOut, returncode>>
    /\ UNCHANGED mainVars /\ UNCHANGED escVars

(* The child process (ffmpeg) *)

ChildWriteStderr ==
    /\ childState = "running"
    /\ errTodo > 0
    /\ Len(errPipe) < PipeCap
    /\ errPipe' = Append(errPipe, emitted + 1)
    /\ emitted' = emitted + 1
    /\ errTodo' = errTodo - 1
    /\ UNCHANGED <<script, input_path, fs, phase, pc, output_path, command,
                   spawns, popen, reports, childState, outTodo, outPipe,
                   relayed, relayedLive, capErr, capOut, returncode>>
    /\ UNCHANGED mainVars /\ UNCHANGED escVars

ChildWriteStdout ==
    /\ childState = "running"
    /\ outTodo > 0
    /\ Len(outPipe) < PipeCap
    /\ outPipe' = Append(outPipe, "o")
    /\ outTodo' = outTodo - 1
    /\ UNCHANGED <<script, input_path, fs, phase, pc, output_path, command,
                   spawns, popen, reports, childState, errTodo, errPipe,
                   emitted, relayed, relayedLive, capErr, capOut, returncode>>
    /\ UNCHANGED mainVars /\ UNCHANGED escVars

\* the child creates the file named by its last argument (empty or not)
ChildWriteOutput ==
    /\ childState = "running"
    /\ ~PathExists(fs, command[Len(command)])
    /\ \E n \in 0..1 : fs' = WriteFile(fs, command[Len(command)], n)
    /\ UNCHANGED <<script, input_path, phase, pc, output_path, command,
                   spawns, popen, reports, childState, errTodo, outTodo,
                   errPipe, outPipe, emitted, relayed, relayedLive, capErr,
                   capOut, returncode>>
    /\ UNCHANGED mainVars /\ UNCHANGED escVars

\* the child exits once it has written everything it wanted to write
ChildExit ==
    /\ childState = "running"
    /\ errTodo = 0 /\ outTodo = 0
    /\ childState' = "exited"
    /\ \E rc \in 0..1 : returncode' = rc
    /\ UNCHANGED <<script, input_path, fs, phase, pc, output_path, command,
                   spawns, popen, reports, errTodo, outTodo, errPipe, outPipe,
                   emitted, relayed, relayedLive, capErr, capOut>>
    /\ UNCHANGED mainVars /\ UNCHANGED escVars

(* The parent in video_repair.py, 1.py, 3.py *)

\* one iteration of "for line in process.stderr: sys.stderr.write(line)"
RelayLine ==
    /\ phase = "Running" /\ pc = "iter"
    /\ errPipe # <<>>
    /\ relayed' = Relay(relayed, Head(errPipe))
    /\ relayedLive' = Append(relayedLive, childState = "running")
    /\ errPipe' = Tail(errPipe)
    /\ UNCHANGED <<script, input_path, fs, phase, pc, output_path, command,
                   spawns, popen, reports, childState, errTodo, outTodo,
                   outPipe, emitted, capErr, capOut, returncode>>
    /\ UNCHANGED mainVars /\ UNCHANGED escVars

\* the for loop ends when the child's end of the stderr pipe is closed
StderrEOF ==
    /\ phase = "Running" /\ pc = "iter"
    /\ errPipe = <<>>
    /\ childState = "exited"
    /\ pc' = "wait"
    /\ UNCHANGED <<script, input_path, fs, phase, output_path, command,
                   spawns, popen, reports, childState, errTodo, outTodo,
                   errPipe, outPipe, emitted, relayed, relayedLive, capErr,
                   capOut, returncode>>
    /\ UNCHANGED mainVars /\ UNCHANGED escVars

\* process.wait() returns, then the if / else on process.returncode
WaitAndClassify ==
    /\ phase = "Running" /\ pc = "wait"
    /\ childState = "exited"
    /\ phase' = Classify(script, returncode, fs, output_path)
    /\ reports' = Append(reports, Classify(script, returncode, fs, output_path))
    /\ pc' = "done"
    /\ UNCHANGED <<script, input_path, fs, output_path, command, spawns,
                   popen, childState, errTodo, outTodo, errPipe, outPipe,
                   emitted, relayed, relayedLive, capErr, capOut, returncode>>
    /\ UNCHANGED mainVars /\ UNCHANGED escVars

(* The parent in 4.py: subprocess.run(capture_output=True) *)

CaptureStderr ==
    /\ phase = "Running" /\ pc = "communicate"
    /\ errPipe # <<>>
    /\ capErr' = Append(capErr, Head(errPipe))
    /\ errPipe' = Tail(errPipe)
    /\ UNCHANGED <<script, input_path, fs, phase, pc, output_path, command,
                   spawns, popen, reports, childState, errTodo, outTodo,
                   outPipe, emitted, relayed, relayedLive, capOut, returncode>>
    /\ UNCHANGED mainVars /\ UNCHANGED escVars

CaptureStdout ==
    /\ phase = "Running" /\ pc = "communicate"
    /\ outPipe # <<>>
    /\ capOut' = Append(capOut, Head(outPipe))
    /\ outPipe' = Tail(outPipe)
    /\ UNCHANGED <<script, input_path, fs, phase, pc, output_path, command,
                   spawns, popen, reports, childState, errTodo, outTodo,
                   errPipe, emitted, relayed, relayedLive, capErr, returncode>>
    /\ UNCHANGED mainVars /\ UNCHANGED escVars

RECURSIVE RelayAll(_, _)
\* sys.stderr.write(process.stderr): the captured text, in one write
RelayAll(seen, captured) ==
    IF captured = <<>> THEN seen
    ELSE RelayAll(Relay(seen, Head(captured)), Tail(captured))

\* run() returns after both pipes hit EOF and the child has been reaped;
\* the captured streams are written out, then the if / else
RunReturns ==
    /\ phase = "Running" /\ pc = "communicate"
    /\ errPipe = <<>> /\ outPipe = <<>>
    /\ childState = "exited"
    /\ relayed' = RelayAll(relayed, capErr)
    /\ relayedLive' = relayedLive \o [i \in 1..Len(capErr) |-> FALSE]
    /\ phase' = Classify(script, returncode, fs, output_path)
    /\ reports' = Append(reports, Classify(script, returncode, fs, output_path))
    /\ pc' = "done"
    /\ UNCHANGED <<script, input_path, fs, output_path, command, spawns,
                   popen, childState, errTodo, outTodo, errPipe, outPipe,
                   emitted, capErr, capOut, returncode>>
    /\ UNCHANGED mainVars /\ UNCHANGED escVars

ChildStep ==
    \/ ChildWriteStderr
    \/ ChildWriteStdout
    \/ ChildWriteOutput
    \/ ChildExit

ParentStep ==
    \/ Start
    \/ RepairVideo
    \/ RelayLine
    \/ StderrEOF
    \/ WaitAndClassify
    \/ CaptureStderr
    \/ CaptureStdout
    \/ RunReturns

Next == ParentStep \/ ChildStep

Spec == Init /\ [][Next]_vars

\* the operating system schedules both processes
FairSpec == Spec /\ WF_vars(ParentStep) /\ WF_vars(ChildStep)

----------------------------------------------------------------------------
(* main: reading and cleaning the path *)

EnteredAlphabet == {" ", "\"", "'", "a"}

Whitespace == {" "}

Quotes == {"\"", "'"}

\* str.strip()
Strip(t) == RStrip(LStrip(t, Whitespace), Whitespace)

\* .strip().replace('"', '').replace("'", "")
CleanPath(t) == Remove(Remove(Strip(t), "\""), "'")

RunIdle ==
    /\ fs = {} /\ phase = "Idle" /\ pc = "none" /\ output_path = <<>>
    /\ command = <<>> /\ spawns = 0 /\ popen = "none" /\ reports = <<>>
    /\ NoChild

MainInit ==
    /\ script \in Scripts
    /\ entered \in SeqsUpTo(EnteredAlphabet, MaxEntered)
    /\ source \in (IF script = Fixed THEN {"prompt", "argv"} ELSE {"prompt"})
    /\ cleaned = <<>>
    /\ mainPc = "start"
    /\ input_path = <<>>
    /\ RunIdle
    /\ EscIdle

\* input(...) or sys.argv[1], then the clean-up line; 4.py cleans the
\* command-line argument twice
MainReadPath ==
    /\ mainPc = "start"
    /\ cleaned' = IF source = "argv" THEN CleanPath(CleanPath(entered))
                  ELSE CleanPath(entered)
    /\ mainPc' = "cleaned"
    /\ UNCHANGED <<script, input_path, entered, source>>
    /\ UNCHANGED runVars /\ UNCHANGED escVars

\* if input_video_path: repair_video(input_video_path)
MainCallRepair ==
    /\ mainPc = "cleaned"
    /\ cleaned # <<>>
    /\ input_path' = cleaned
    /\ phase' = "Validating"
    /\ mainPc' = "called"
    /\ UNCHANGED <<script, entered, source, cleaned, fs, pc, output_path,
                   command, spawns, popen, reports, childState, errTodo,
                   outTodo, errPipe, outPipe, emitted, relayed, relayedLive,
                   capErr, capOut, returncode>>
    /\ UNCHANGED escVars

\* else: print("No path provided. Exiting.")
MainNoPath ==
    /\ mainPc = "cleaned"
    /\ cleaned = <<>>
    /\ mainPc' = "exit"
    /\ UNCHANGED <<script, input_path, entered, source, cleaned>>
    /\ UNCHANGED runVars /\ UNCHANGED escVars

MainNext == MainReadPath \/ MainCallRepair \/ MainNoPath

MainSpec == MainInit /\ [][MainNext]_vars

----------------------------------------------------------------------------
(* An operator running the three _noncorrupt scripts in turn on one input *)

EscAlphabet == {"/", ".", "m", "p", "4"}

HasFlag(cmd, flag) == \E i \in 1..Len(cmd) : cmd[i] = flag

EscInit ==
    /\ script = Remux
    /\ input_path \in SeqsUpTo(EscAlphabet, MaxEscLen) \ {<<>>}
    /\ fs = {<<input_path, 1>>}
    /\ phase = "Idle" /\ pc = "none" /\ output_path = <<>>
    /\ command = <<>> /\ spawns = 0 /\ popen = "none" /\ reports = <<>>
    /\ NoChild
    /\ MainIdle
    /\ EscIdle

\* one run of the next script: it derives its output path, builds its
\* command, and ffmpeg writes the file named by the last argument; ffmpeg
\* replaces an existing file only when given -y
EscRun ==
    /\ escStep < Len(EscalationOrder)
    /\ LET s == EscalationOrder[escStep + 1]
           out == DeriveOutput(s, input_path)
           cmd == BuildArguments(s, input_path, out)
           target == cmd[Len(cmd)]
       IN /\ script' = s
          /\ output_path' = out
          /\ command' = cmd
          /\ escFs' = IF PathExists(escFs, target) /\ ~HasFlag(cmd, FlagY)
                      THEN escFs
                      ELSE WriteFile(escFs, target, s)
    /\ escStep' = escStep + 1
    /\ UNCHANGED <<input_path, fs, phase, pc, spawns, popen, reports,
                   childState, errTodo, outTodo, errPipe, outPipe, emitted,
                   relayed, relayedLive, capErr, capOut, returncode>>
    /\ UNCHANGED mainVars

EscNext == EscRun

EscSpec == EscInit /\ [][EscNext]_vars

----------------------------------------------------------------------------
(* Properties *)

Range(t) == {t[i] : i \in 1..Len(t)}

Classified == phase \in {"Succeeded", "Failed"}

OutputNonEmpty == \E e \in fs : e[1] = output_path /\ e[2] > 0

InputMissing == \A e \in fs : e[1] # input_path

\* C1 (as claimed): in every script the outcome is Succeeded iff the child
\* exited with code 0 and the output file exists with non-zero size;
\* everything else is Failed.
C1_SuccessIffExitZeroAndOutput ==
    Classified =>
        /\ phase = "Succeeded" <=> (returncode = 0 /\ OutputNonEmpty)
        /\ reports = <<phase>>

\* C1 (amended): a non-zero exit code is always Failed; 4.py reports
\* Succeeded iff the exit code is 0 and the output file exists with non-zero
\* size; video_repair.py, 1.py and 3.py report Succeeded iff the exit code
\* is 0, without looking at the output file.
C1_SuccessPerScript ==
    Classified =>
        /\ phase = "Succeeded" <=>
               (returncode = 0 /\ (script = Fixed => OutputNonEmpty))
        /\ reports = <<phase>>

C1_Witness ==
    /\ script = Fixed /\ phase = "Failed" /\ returncode = 0
    /\ <<output_path, 0>> \in fs

\* C2: when the input path does not exist the script reports InputNotFound
\* and no child process is ever spawned.
C2_NoSpawnWithoutInput ==
    InputMissing =>
        /\ spawns = 0 /\ childState = "none" /\ command = <<>>
        /\ popen = "none"
        /\ phase \notin {"Idle", "Validating"} =>
               phase = "InputNotFound" /\ reports = <<"InputNotFound">>

C2_Witness == InputMissing /\ phase = "InputNotFound" /\ spawns = 0

\* C3: for an existing input the derived output path differs from the input
\* path under every strategy, the child is never spawned with its output
\* argument equal to its input argument, and an IdenticalPaths abort never
\* follows a spawn.
C3_OutputNeverInput ==
    /\ ~InputMissing =>
           \A s \in Scripts : DeriveOutput(s, input_path) # input_path
    /\ phase \notin {"Idle", "Validating", "InputNotFound"} =>
           output_path # input_path
    /\ spawns > 0 =>
           /\ command[Len(command)] = output_path
           /\ \A i \in 1..(Len(command) - 1) :
                  command[i] = FlagI => command[i + 1] # command[Len(command)]
    /\ phase = "IdenticalPaths" => spawns = 0

C3_Witness ==
    /\ spawns = 1 /\ childState = "running"
    /\ command[Len(command)] = output_path
    /\ output_path # input_path

\* C4 (as claimed): in the three scripts that use pipes, a spawned child
\* that exits once its output is consumed never blocks forever: the run
\* always reaches Succeeded or Failed.
C4_RunTerminates ==
    [](script \in Streaming /\ phase = "Running" => <>Classified)

\* C5: when the tool cannot be resolved the run ends as ToolNotFound with
\* exactly that report and no success or failure report; the ToolNotFound
\* report never appears in a run that spawned a child.
C5_ToolNotFoundDistinct ==
    /\ popen = "FileNotFoundError" =>
           /\ phase = "ToolNotFound"
           /\ reports = <<"ToolNotFound">>
           /\ spawns = 0 /\ childState = "none"
    /\ spawns > 0 => "ToolNotFound" \notin Range(reports)
    /\ "ToolNotFound" \in Range(reports) => popen = "FileNotFoundError"

C5_Witness == popen = "FileNotFoundError" /\ phase = "ToolNotFound"

AllowedEdges ==
    {<<"Idle", "Validating">>, <<"Validating", "Running">>,
     <<"Running", "Succeeded">>, <<"Running", "Failed">>,
     <<"Validating", "InputNotFound">>, <<"Validating", "IdenticalPaths">>,
     <<"Validating", "ToolNotFound">>, <<"Validating", "Unexpected">>}

\* C6: the phase only moves along Idle -> Validating -> Running ->
\* {Succeeded, Failed} or from Validating to an error outcome; at most one
\* child is spawned; once an outcome is reached nothing changes any more;
\* the command, once built, is the running script's own template and is
\* never replaced.
C6_SingleShot ==
    /\ [](spawns <= 1)
    /\ [](command # <<>> =>
              command = BuildArguments(script, input_path, output_path))
    /\ [][/\ phase' # phase => <<phase, phase'>> \in AllowedEdges
          /\ phase \notin Outcomes
          /\ script' = script
          /\ command # <<>> => command' = command
          /\ spawns' > spawns => phase = "Validating" /\ phase' = "Running"]_vars

C6_Witness == phase = "Failed" /\ spawns = 1 /\ Len(reports) = 1

RelayedInOrder ==
    /\ Len(relayed) <= emitted
    /\ relayed = [i \in 1..Len(relayed) |-> i]

\* a step that writes child stderr text to the caller's stderr
RelayNow == Next /\ relayed' # relayed

\* C7 (as claimed): in every script the child's stderr lines are relayed in
\* emission order, and a line written while the child is running can be
\* relayed while it is still running.
C7_LiveRelayEverywhere ==
    /\ RelayedInOrder
    /\ (childState = "running" /\ errPipe # <<>>) => ENABLED RelayNow

\* C7 (amended): stderr lines are relayed in emission order in every
\* script; in video_repair.py, 1.py and 3.py a line written while the child
\* is running can be relayed while it is still running; in 4.py nothing is
\* relayed before the child has terminated, and then all of it is.
C7_LiveRelayStreamingOnly ==
    /\ RelayedInOrder
    /\ (script \in Streaming /\ childState = "running" /\ errPipe # <<>>)
           => ENABLED RelayNow
    /\ (script = Fixed /\ childState = "running") => relayed = <<>>
    /\ (script = Fixed /\ Classified) => Len(relayed) = emitted

C7_Witness ==
    /\ script \in Streaming /\ childState = "running"
    /\ Len(relayed) = 2 /\ relayedLive[1]

Conforms(s, cmd, inp, out) ==
    /\ \E i \in 1..(Len(cmd) - 1) : cmd[i] = FlagI /\ cmd[i + 1] = inp
    /\ HasFlag(cmd, FlagY)
    /\ cmd[Len(cmd)] = out
    /\ s = Forced =>
           /\ SubSeq(cmd, 2, 5) = ForcedInputArgs
           /\ cmd[6] = FlagI
           /\ <<cmd[1]>> \o SubSeq(cmd, 6, Len(cmd))
                  = BuildArguments(Reencode, inp, out)

\* C8 (as claimed): in every script the spawned command has the input flag
\* immediately followed by the input path, has the overwrite flag, ends
\* with the output path, and in 3.py the format override and error
\* tolerance flags precede the input flag with the rest equal to 1.py's.
C8_TemplateConforms ==
    spawns > 0 => Conforms(script, command, input_path, output_path)

\* strip whitespace, then strip quote characters at both ends only
StripSurrounding(t) == RStrip(LStrip(Strip(t), Quotes), Quotes)

\* C9 (as claimed): the cleaned path is the entered text without
\* surrounding whitespace and surrounding quote characters; quote
\* characters inside the path are kept.
C9_OnlySurroundingQuotes ==
    mainPc # "start" => cleaned = StripSurrounding(entered)

ExtOf(p) == Splitext(Basename(p))[2]

\* C10: video_repair.py and 1.py derive the same output path; 3.py derives
\* that path exactly when the input extension is ".mp4"; each of the three
\* passes -y, so when they are run in turn a later run replaces the file
\* an earlier run wrote at the same path; the input file is never written.
C10_SharedOutputPath ==
    /\ DeriveOutput(Remux, input_path) = DeriveOutput(Reencode, input_path)
    /\ DeriveOutput(Forced, input_path) = DeriveOutput(Reencode, input_path)
           <=> ExtOf(input_path) = Mp4
    /\ \A e \in escFs : e[1] # input_path
    /\ escStep > 0 =>
           /\ HasFlag(command, FlagY)
           /\ <<output_path, script>> \in escFs
           /\ \A e \in escFs : e[1] = output_path => e[2] = script
    /\ escStep = Len(EscalationOrder) =>
           Cardinality(escFs) = IF ExtOf(input_path) = Mp4 THEN 1 ELSE 2

C10_Witness ==
    /\ escStep = Len(EscalationOrder)
    /\ ExtOf(input_path) = Mp4
    /\ escFs = {<<output_path, Forced>>}

====
